---- MODULE Spec2Model ----
(***************************************************************************)
(* yaschema: the array combinator (validateArray / asyncValidateArray),    *)
(* the upgraded combinator (internalValidate / internalValidateAsync) and  *)
(* the process-wide set alreadyLogUpgradedWarnings, as a state machine of  *)
(* validation calls running on a single-threaded cooperative host.         *)
(***************************************************************************)
EXTENDS Integers, Sequences, FiniteSets, TLC

(* ------------------------------ bounds --------------------------------- *)

\* longest array value validated
MaxLen == 3

\* the warn-call counter of a uniqueName saturates here (the code warns once)
MaxWarnings == 2

\* validation calls that run interleaved in one process
NumCalls == 2

(* --------------------------- program constants -------------------------- *)

ESTIMATED_AVG_ARRAY_LENGTH == 100

\* an option that was not given (minLength, maxLength, maxEntriesToValidate)
Undefined == -1

(* ------------------------------- values -------------------------------- *)

\* run-time values, tagged by what getMeaningfulTypeof / Array.isArray see
StringValue == [kind |-> "string", elems |-> <<>>]

NumberValue == [kind |-> "number", elems |-> <<>>]

UndefinedValue == [kind |-> "undefined", elems |-> <<>>]

NullValue == [kind |-> "null", elems |-> <<>>]

ArrayValue(es) == [kind |-> "array", elems |-> es]

IsArray(value) == value.kind = "array"

\* value[index], indices counted from 0 as in the code
ItemAt(value, index) == value.elems[index + 1]

SeqsUpTo(S, n) == UNION {[1..k -> S] : k \in 0..n}

(* ------------------------------- results ------------------------------- *)

noError == [kind |-> "noError", path |-> <<>>, expected |-> 0, found |-> 0, typ |-> ""]

\* errorResult before any error was stored in it
NoResult == [kind |-> "undefined", path |-> <<>>, expected |-> 0, found |-> 0, typ |-> ""]

TypeMismatch(value, path) ==
  [kind |-> "typeMismatch", path |-> path, expected |-> 0, found |-> 0, typ |-> value.kind]

TooShort(minLength, value, path) ==
  [kind |-> "tooShort", path |-> path, expected |-> minLength, found |-> Len(value.elems), typ |-> ""]

TooLong(maxLength, value, path) ==
  [kind |-> "tooLong", path |-> path, expected |-> maxLength, found |-> Len(value.elems), typ |-> ""]

LeafError(value, path) ==
  [kind |-> "leaf", path |-> path, expected |-> 0, found |-> 0, typ |-> value.kind]

\* result.error === undefined
HasNoError(result) == result.kind = "noError"

\* errorResult ?? noError
OrNoError(errorResult) == IF errorResult = NoResult THEN noError ELSE errorResult

appendPathIndex(path, index) == Append(path, index)

(* ------------------------------- schemas ------------------------------- *)

NoSchema == [schemaType |-> "undefined"]

leaf(accepts, cost, usesCustomSerDes) ==
  [schemaType |-> "leaf", accepts |-> accepts,
   estimatedValidationTimeComplexity |-> cost, usesCustomSerDes |-> usesCustomSerDes]

\* options.items?.usesCustomSerDes ?? false
needsDeepSerDesOf(items) ==
  IF items = NoSchema THEN FALSE ELSE items.usesCustomSerDes

MutantZeroIsMissing(x) == IF x = Undefined \/ x = 0 THEN ESTIMATED_AVG_ARRAY_LENGTH ELSE x

\* x ?? ESTIMATED_AVG_ARRAY_LENGTH
OrAvgLength(x) == IF x = Undefined THEN ESTIMATED_AVG_ARRAY_LENGTH ELSE x

arrayCost(items, maxLength, maxEntriesToValidate) ==
  (IF items = NoSchema THEN 1 ELSE items.estimatedValidationTimeComplexity)
  * OrAvgLength(IF needsDeepSerDesOf(items) THEN maxLength ELSE maxEntriesToValidate)

array(items, minLength, maxLength, maxEntriesToValidate) ==
  [schemaType |-> "array", items |-> items, minLength |-> minLength,
   maxLength |-> maxLength, maxEntriesToValidate |-> maxEntriesToValidate,
   estimatedValidationTimeComplexity |-> arrayCost(items, maxLength, maxEntriesToValidate),
   usesCustomSerDes |-> needsDeepSerDesOf(items)]

upgraded(uniqueName, old, new) ==
  [schemaType |-> "upgraded", uniqueName |-> uniqueName, oldSchema |-> old, newSchema |-> new,
   estimatedValidationTimeComplexity |->
     old.estimatedValidationTimeComplexity + new.estimatedValidationTimeComplexity,
   usesCustomSerDes |-> old.usesCustomSerDes \/ new.usesCustomSerDes]

\* schema.allowNull(): null is accepted, every other value is left to schema
allowNull(schema) ==
  [schemaType |-> "allowNull", schema |-> schema,
   estimatedValidationTimeComplexity |-> schema.estimatedValidationTimeComplexity,
   usesCustomSerDes |-> schema.usesCustomSerDes]

\* schema.optional(): undefined is accepted, every other value is left to schema
optional(schema) ==
  [schemaType |-> "optional", schema |-> schema,
   estimatedValidationTimeComplexity |-> schema.estimatedValidationTimeComplexity,
   usesCustomSerDes |-> schema.usesCustomSerDes]

\* minLength = 0 when the option is not given
minLengthOf(schema) == IF schema.minLength = Undefined THEN 0 ELSE schema.minLength

(* ------------- what a validation leaves behind (side effects) ----------- *)

\* one entry of a call's trace: an item validator invoked on index i, a
\* shouldYield consulted, a yield awaited, or a first error stored, by the
\* validator running at call depth d (0 is the validator that was called);
\* for an upgraded validator: callNew, newAccepted or newRejected, callOld,
\* oldAccepted or oldRejected; for an asynchronous validator, after item,
\* callNew and callOld: which validator of the child it invoked, sync or async
Event(e, d, i) == [e |-> e, d |-> d, i |-> i]

\* env: the deprecation-warning set, the warn calls made so far per
\* uniqueName, the legacy matches seen so far, the running call's trace, the
\* estimated cost of the child validations it ran since it last suspended,
\* and whether shouldYield has answered true every time so far
Emit(env, ev) == [env EXCEPT !.trace = Append(@, ev)]

\* a child validation of this estimated cost runs without suspension
Spend(env, cost) == [env EXCEPT !.work = @ + cost]

Min(a, b) == IF a < b THEN a ELSE b

Max(a, b) == IF a > b THEN a ELSE b

MutantWarnEveryTime(env, uniqueName, value) ==
  IF value # UndefinedValue
    THEN [env EXCEPT !.warns[uniqueName] = Min(MaxWarnings, @ + 1),
                     !.legacy = @ \cup {<<uniqueName, TRUE>>}]
    ELSE [env EXCEPT !.legacy = @ \cup {<<uniqueName, FALSE>>}]

MutantAddsNameForUndefined(env, uniqueName, value) ==
  IF uniqueName \notin env.alreadyLogUpgradedWarnings
    THEN [env EXCEPT !.alreadyLogUpgradedWarnings = @ \cup {uniqueName},
                     !.warns[uniqueName] =
                       IF value # UndefinedValue THEN Min(MaxWarnings, @ + 1) ELSE @,
                     !.legacy = @ \cup {<<uniqueName, value # UndefinedValue>>}]
    ELSE [env EXCEPT !.legacy = @ \cup {<<uniqueName, value # UndefinedValue>>}]

\* the branch taken once old accepted what new rejected
WarnOnce(env, uniqueName, value) ==
  IF value # UndefinedValue /\ uniqueName \notin env.alreadyLogUpgradedWarnings
    THEN [env EXCEPT !.alreadyLogUpgradedWarnings = @ \cup {uniqueName},
                     !.warns[uniqueName] = Min(MaxWarnings, @ + 1),
                     !.legacy = @ \cup {<<uniqueName, value # UndefinedValue>>}]
    ELSE [env EXCEPT !.legacy = @ \cup {<<uniqueName, value # UndefinedValue>>}]

Ret(result, env) == [result |-> result, env |-> env]

\* the trace entry for what the new or the old schema's validator returned
Returned(which, result) ==
  IF HasNoError(result)
    THEN (IF which = "new" THEN "newAccepted" ELSE "oldAccepted")
    ELSE (IF which = "new" THEN "newRejected" ELSE "oldRejected")

(* ----------------- fragments shared by the two array validators --------- *)

MutantStopUnlessNone(mode, needsDeepSerDes) == mode # "none" \/ ~needsDeepSerDes

\* validatorOptions.validation === 'hard' || !needsDeepSerDes
shouldStopOnFirstErrorOf(mode, needsDeepSerDes) == mode = "hard" \/ ~needsDeepSerDes

MutantOneMoreEntry(schema, index) ==
  /\ ~needsDeepSerDesOf(schema.items)
  /\ schema.maxEntriesToValidate # Undefined
  /\ index > schema.maxEntriesToValidate

\* !needsDeepSerDes && maxEntriesToValidate !== undefined && index >= maxEntriesToValidate
reachedMaxEntriesToValidate(schema, index) ==
  /\ ~needsDeepSerDesOf(schema.items)
  /\ schema.maxEntriesToValidate # Undefined
  /\ index >= schema.maxEntriesToValidate

MutantLastErrorWins(errorResult, result) == ~HasNoError(result)

\* errorResult === undefined && result.error !== undefined
storesError(errorResult, result) == errorResult = NoResult /\ ~HasNoError(result)

MutantMinInclusive(schema, value, path) ==
  IF Len(value.elems) <= minLengthOf(schema)
    THEN TooShort(minLengthOf(schema), value, path)
  ELSE IF schema.maxLength # Undefined /\ Len(value.elems) > schema.maxLength
    THEN TooLong(schema.maxLength, value, path)
  ELSE NoResult

\* the two bound checks: errorResult after them
boundsError(schema, value, path) ==
  IF Len(value.elems) < minLengthOf(schema)
    THEN TooShort(minLengthOf(schema), value, path)
  ELSE IF schema.maxLength # Undefined /\ Len(value.elems) > schema.maxLength
    THEN TooLong(schema.maxLength, value, path)
  ELSE NoResult

MutantAsyncMinInclusive(schema, value, mode, path) ==
  IF mode # "none" THEN MutantMinInclusive(schema, value, path) ELSE NoResult

\* asyncValidateArray checks the bounds unless validation is 'none'
asyncBoundsError(schema, value, mode, path) ==
  IF mode # "none" THEN boundsError(schema, value, path) ELSE NoResult

MutantReturnNewError(newResult, oldResult) ==
  IF HasNoError(newResult) \/ HasNoError(oldResult) THEN noError ELSE newResult

\* what the upgraded validators return, given what new and old returned
upgradedResult(newResult, oldResult) ==
  IF HasNoError(newResult) THEN noError
  ELSE IF HasNoError(oldResult) THEN noError
  ELSE oldResult

(* ------------------------- synchronous validators ----------------------- *)

\* a leaf type's validator: checks nothing in mode 'none'
leafValidate(schema, value, mode, path) ==
  IF mode = "none" \/ value.kind \in schema.accepts THEN noError ELSE LeafError(value, path)

RECURSIVE internalValidate(_, _, _, _, _, _)
RECURSIVE validateArrayItems(_, _, _, _, _, _, _, _)

\* the for-of loop of validateArray, from the element at index on
validateArrayItems(schema, value, mode, path, depth, index, errorResult, env) ==
  LET needsDeepSerDes == needsDeepSerDesOf(schema.items)
      shouldStopOnFirstError == shouldStopOnFirstErrorOf(mode, needsDeepSerDes)
  IN IF index >= Len(value.elems)
       THEN Ret(OrNoError(errorResult), env)
     ELSE IF reachedMaxEntriesToValidate(schema, index)
       THEN Ret(OrNoError(errorResult), env)
     ELSE LET r == internalValidate(schema.items, ItemAt(value, index), mode,
                                    appendPathIndex(path, index), depth + 1,
                                    Emit(env, Event("item", depth, index)))
          IN IF storesError(errorResult, r.result)
               THEN IF shouldStopOnFirstError
                      THEN Ret(r.result, Emit(r.env, Event("error", depth, index)))
                      ELSE validateArrayItems(schema, value, mode, path, depth, index + 1,
                                              r.result, Emit(r.env, Event("error", depth, index)))
               ELSE validateArrayItems(schema, value, mode, path, depth, index + 1,
                                       errorResult, r.env)

validateArray(schema, value, mode, path, depth, env) ==
  LET needsDeepSerDes == needsDeepSerDesOf(schema.items)
      shouldStopOnFirstError == shouldStopOnFirstErrorOf(mode, needsDeepSerDes)
      errorResult == boundsError(schema, value, path)
      env1 == IF errorResult = NoResult THEN env ELSE Emit(env, Event("error", depth, -1))
  IN IF ~IsArray(value)
       THEN Ret(TypeMismatch(value, path), Emit(env, Event("error", depth, -1)))
     ELSE IF ~needsDeepSerDes /\ mode = "none"
       THEN Ret(noError, env)
     ELSE IF errorResult # NoResult /\ shouldStopOnFirstError
       THEN Ret(errorResult, env1)
     ELSE IF schema.items = NoSchema
       THEN Ret(OrNoError(errorResult), env1)
     ELSE validateArrayItems(schema, value, mode, path, depth, 0, errorResult, env1)

MutantOldFirst(schema, value, mode, path, depth, env) ==
  LET old == internalValidate(schema.oldSchema, value, mode, path, depth + 1,
                              Emit(env, Event("callOld", depth, -1)))
      oldEnv == Emit(old.env, Event(Returned("old", old.result), depth, -1))
      new == internalValidate(schema.newSchema, value, mode, path, depth + 1,
                              Emit(oldEnv, Event("callNew", depth, -1)))
      newEnv == Emit(new.env, Event(Returned("new", new.result), depth, -1))
  IN IF HasNoError(new.result)
       THEN Ret(noError, newEnv)
     ELSE IF HasNoError(old.result)
       THEN Ret(noError, WarnOnce(newEnv, schema.uniqueName, value))
     ELSE Ret(old.result, newEnv)

MutantRejectOnceWarned(schema, value, mode, path, depth, env) ==
  LET new == internalValidate(schema.newSchema, value, mode, path, depth + 1, env)
      old == internalValidate(schema.oldSchema, value, mode, path, depth + 1, new.env)
  IN IF HasNoError(new.result)
       THEN Ret(noError, new.env)
     ELSE IF HasNoError(old.result)
       THEN IF value # UndefinedValue
                /\ schema.uniqueName \notin old.env.alreadyLogUpgradedWarnings
              THEN Ret(noError, WarnOnce(old.env, schema.uniqueName, value))
              ELSE Ret(new.result, old.env)
     ELSE Ret(old.result, old.env)

upgradedInternalValidate(schema, value, mode, path, depth, env) ==
  LET new == internalValidate(schema.newSchema, value, mode, path, depth + 1,
                              Emit(env, Event("callNew", depth, -1)))
      newEnv == Emit(new.env, Event(Returned("new", new.result), depth, -1))
      old == internalValidate(schema.oldSchema, value, mode, path, depth + 1,
                              Emit(newEnv, Event("callOld", depth, -1)))
      oldEnv == Emit(old.env, Event(Returned("old", old.result), depth, -1))
  IN IF HasNoError(new.result)
       THEN Ret(upgradedResult(new.result, NoResult), newEnv)
     ELSE IF HasNoError(old.result)
       THEN Ret(upgradedResult(new.result, old.result),
                WarnOnce(oldEnv, schema.uniqueName, value))
     ELSE Ret(upgradedResult(new.result, old.result), oldEnv)

MutantMarkerAcceptsBoth(schema, value, mode, path, depth, env) ==
  IF value \in {NullValue, UndefinedValue}
    THEN Ret(noError, env)
    ELSE internalValidate(schema.schema, value, mode, path, depth + 1, env)

\* the validator of schema.allowNull() and of schema.optional()
markerValidate(schema, value, mode, path, depth, env) ==
  IF \/ schema.schemaType = "allowNull" /\ value = NullValue
     \/ schema.schemaType = "optional" /\ value = UndefinedValue
    THEN Ret(noError, env)
    ELSE internalValidate(schema.schema, value, mode, path, depth + 1, env)

internalValidate(schema, value, mode, path, depth, env) ==
  CASE schema.schemaType = "leaf" -> Ret(leafValidate(schema, value, mode, path), env)
    [] schema.schemaType \in {"allowNull", "optional"} ->
         markerValidate(schema, value, mode, path, depth, env)
    [] schema.schemaType = "array" -> validateArray(schema, value, mode, path, depth, env)
    [] schema.schemaType = "upgraded" -> upgradedInternalValidate(schema, value, mode, path, depth, env)

(* ------------------------ schemas and values used ----------------------- *)

str == leaf({"string"}, 1, FALSE)

num == leaf({"number"}, 1, FALSE)

\* num.optional()
optNum == leaf({"number", "undefined"}, 1, FALSE)

\* a leaf that deserializes what it validates (usesCustomSerDes)
date == leaf({"string"}, 3, TRUE)

UniqueNames == {"n1", "n2"}

Modes == {"hard", "soft", "none"}

Thresholds == {1, 2, 200}

ArraySchemas ==
  {array(items, minLength, maxLength, maxEntriesToValidate) :
     items \in {NoSchema, str, date}, minLength \in {Undefined, 2},
     maxLength \in {Undefined, 2}, maxEntriesToValidate \in {Undefined, 1}}

UpgradedSchemas ==
  {upgraded(name, pair[1], pair[2]) :
     name \in UniqueNames, pair \in {<<optNum, str>>, <<num, date>>}}

NestedSchemas ==
  { array(upgraded("n1", optNum, str), Undefined, Undefined, Undefined),
    array(array(str, Undefined, 2, Undefined), Undefined, Undefined, Undefined),
    array(array(date, 2, Undefined, Undefined), 2, Undefined, Undefined),
    array(array(str, Undefined, Undefined, 1), Undefined, Undefined, 1),
    upgraded("n2", array(num, Undefined, Undefined, Undefined), array(str, 2, Undefined, Undefined)),
    upgraded("n1", array(date, 2, Undefined, Undefined), array(date, Undefined, 2, Undefined)),
    upgraded("n1", upgraded("n2", num, array(NoSchema, Undefined, Undefined, Undefined)), str) }

\* bounds of 0, and children whose cost is 0
ZeroBoundSchemas ==
  { array(str, Undefined, Undefined, 0),
    array(date, Undefined, 0, Undefined),
    array(NoSchema, Undefined, 0, 0),
    array(array(str, Undefined, Undefined, 0), Undefined, Undefined, Undefined),
    upgraded("n2", array(date, Undefined, 0, Undefined), array(str, Undefined, Undefined, 0)) }

\* an upgraded schema whose new schema is itself an upgraded schema
UpgradedInNew == upgraded("n1", str, upgraded("n2", num, str))

\* string(), string().allowNull(), string().optional(), string().allowNull().optional()
MarkerSchemas == {allowNull(str), optional(str), optional(allowNull(str)), allowNull(date)}

RootSchemas ==
  ArraySchemas \cup UpgradedSchemas \cup NestedSchemas \cup ZeroBoundSchemas
    \cup {UpgradedInNew} \cup MarkerSchemas

LeafValues == {StringValue, NumberValue, UndefinedValue}

\* arrays of strings and numbers up to MaxLen, and the arrays of at most two
\* elements that hold undefined
FlatArrays ==
  {ArrayValue(es) : es \in SeqsUpTo({StringValue, NumberValue}, MaxLen) \cup SeqsUpTo(LeafValues, 2)}

NestedArrays ==
  {ArrayValue(es) : es \in SeqsUpTo({StringValue, ArrayValue(<<StringValue>>),
                                     ArrayValue(<<NumberValue, StringValue, StringValue>>)}, 2)}

Values == LeafValues \cup {NullValue} \cup FlatArrays \cup NestedArrays

\* the schemas validated under a fair host: each kind of validator, chunks
\* of one, of two and of every element, children run synchronously and
\* asynchronously
FairSchemas ==
  { array(str, Undefined, Undefined, Undefined),
    array(date, 2, 2, Undefined),
    array(str, Undefined, Undefined, 1),
    array(upgraded("n1", optNum, str), Undefined, Undefined, Undefined),
    array(array(str, Undefined, 2, Undefined), Undefined, Undefined, Undefined),
    array(array(str, Undefined, Undefined, 0), Undefined, Undefined, Undefined),
    upgraded("n2", array(num, Undefined, Undefined, Undefined), array(str, 2, Undefined, Undefined)),
    upgraded("n1", num, date),
    optional(allowNull(str)) }

FairValues == Values

\* the calls that run interleaved: upgraded schemas sharing uniqueNames
ConcSchemas ==
  { upgraded("n1", optNum, str),
    upgraded("n1", num, date),
    upgraded("n2", optNum, str),
    array(upgraded("n1", optNum, str), Undefined, Undefined, Undefined) }

ConcValues ==
  {StringValue, NumberValue, UndefinedValue, ArrayValue(<<NumberValue>>)}

ConcModes == {"hard"}

ConcThresholds == {2}

(* -------------------------------- state -------------------------------- *)

VARIABLES
  asyncTimeComplexityThreshold, \* what getAsyncTimeComplexityThreshold() returns
  alreadyLogUpgradedWarnings,   \* the process-wide set of uniqueNames warned about
  warns,                        \* calls of getLogger().warn so far, per uniqueName
  legacy,                       \* <<uniqueName, value defined>> of every value old accepted and new rejected
  tasks                         \* the validation calls: their arguments, call stack, result and trace

vars == <<asyncTimeComplexityThreshold, alreadyLogUpgradedWarnings, warns, legacy, tasks>>

IdleTask ==
  [status |-> "idle", kind |-> "none", schema |-> NoSchema, value |-> UndefinedValue,
   mode |-> "hard", stack |-> <<>>, result |-> NoResult, trace |-> <<>>,
   work |-> 0, alwaysYield |-> TRUE]

\* an activation of internalValidateAsync
Frame(schema, value, path, depth) ==
  [schema |-> schema, value |-> value, path |-> path, depth |-> depth, pc |-> "start",
   errorResult |-> NoResult, chunkStartIndex |-> 0, index |-> 0,
   newResult |-> NoResult, oldResult |-> NoResult, ret |-> NoResult]

InitWith(ids, thresholds) ==
  /\ asyncTimeComplexityThreshold \in thresholds
  /\ alreadyLogUpgradedWarnings = {}
  /\ warns = [n \in UniqueNames |-> 0]
  /\ legacy = {}
  /\ tasks = [t \in ids |-> IdleTask]

Init == InitWith({1}, Thresholds)

InitConc == InitWith(1..NumCalls, ConcThresholds)

EnvOf(t) ==
  [alreadyLogUpgradedWarnings |-> alreadyLogUpgradedWarnings, warns |-> warns,
   legacy |-> legacy, trace |-> tasks[t].trace,
   work |-> tasks[t].work, alwaysYield |-> tasks[t].alwaysYield]

Top(t) == tasks[t].stack[Len(tasks[t].stack)]

Running(t, schemaType, pc) ==
  /\ tasks[t].status = "running"
  /\ Top(t).schema.schemaType = schemaType
  /\ Top(t).pc = pc

\* the state after task t ran a step that left it with this stack and env
Commit(t, stack, env) ==
  /\ alreadyLogUpgradedWarnings' = env.alreadyLogUpgradedWarnings
  /\ warns' = env.warns
  /\ legacy' = env.legacy
  /\ tasks' = [tasks EXCEPT ![t] =
       [@ EXCEPT !.stack = stack, !.trace = env.trace,
                 !.work = env.work, !.alwaysYield = env.alwaysYield,
                 !.status = IF stack[1].pc = "done" THEN "done" ELSE "running",
                 !.result = IF stack[1].pc = "done" THEN stack[1].ret ELSE NoResult]]
  /\ UNCHANGED asyncTimeComplexityThreshold

SetTop(stack, frame) == [stack EXCEPT ![Len(stack)] = frame]

\* the top frame returns result to the frame awaiting it (or to the caller)
Return(stack, result) ==
  IF Len(stack) = 1
    THEN <<[stack[1] EXCEPT !.pc = "done", !.ret = result]>>
    ELSE Append(SubSeq(stack, 1, Len(stack) - 2),
                [stack[Len(stack) - 1] EXCEPT !.pc = "got", !.ret = result])

MutantAsyncFromThreshold(child) ==
  child.estimatedValidationTimeComplexity >= asyncTimeComplexityThreshold

\* the test that selects the child's validator
usesAsyncValidator(child) ==
  child.estimatedValidationTimeComplexity > asyncTimeComplexityThreshold

\* child.estimatedValidationTimeComplexity > asyncTimeComplexityThreshold
\*   ? await child.internalValidateAsync(value, validatorOptions, path)
\*   : child.internalValidate(value, validatorOptions, path)
\* by the top frame, which then goes on at "got" with the result in ret
InvokeChild(t, frame, child, value, path, env) ==
  IF usesAsyncValidator(child)
    THEN Commit(t, Append(SetTop(tasks[t].stack, [frame EXCEPT !.pc = "await"]),
                          Frame(child, value, path, frame.depth + 1)),
                Emit(env, Event("async", frame.depth, frame.index)))
    ELSE LET r == internalValidate(child, value, tasks[t].mode, path, frame.depth + 1,
                                   Spend(Emit(env, Event("sync", frame.depth, frame.index)),
                                         child.estimatedValidationTimeComplexity))
         IN Commit(t, SetTop(tasks[t].stack, [frame EXCEPT !.pc = "got", !.ret = r.result]), r.env)

(* ------------------------------- actions ------------------------------- *)

\* a caller validates value synchronously: schema.internalValidate
Validate(t, schema, value, mode) ==
  /\ tasks[t].status = "idle"
  /\ LET r == internalValidate(schema, value, mode, <<>>, 0, EnvOf(t))
     IN /\ alreadyLogUpgradedWarnings' = r.env.alreadyLogUpgradedWarnings
        /\ warns' = r.env.warns
        /\ legacy' = r.env.legacy
        /\ tasks' = [tasks EXCEPT ![t] =
             [status |-> "done", kind |-> "sync", schema |-> schema, value |-> value,
              mode |-> mode, stack |-> <<>>, result |-> r.result, trace |-> r.env.trace,
              work |-> r.env.work, alwaysYield |-> r.env.alwaysYield]]
  /\ UNCHANGED asyncTimeComplexityThreshold

\* a caller starts schema.internalValidateAsync
ValidateAsync(t, schema, value, mode) ==
  /\ tasks[t].status = "idle"
  /\ tasks' = [tasks EXCEPT ![t] =
       [status |-> "running", kind |-> "async", schema |-> schema, value |-> value,
        mode |-> mode, stack |-> <<Frame(schema, value, <<>>, 0)>>,
        result |-> NoResult, trace |-> <<>>, work |-> 0, alwaysYield |-> TRUE]]
  /\ UNCHANGED <<asyncTimeComplexityThreshold, alreadyLogUpgradedWarnings, warns, legacy>>

\* the estimated cost of the validation a frame runs, when it is a child's
ChildCost(frame) ==
  IF frame.depth = 0 THEN 0 ELSE frame.schema.estimatedValidationTimeComplexity

\* a leaf's asynchronous validator: the synchronous result, no suspension
AsyncLeaf(t) ==
  /\ Running(t, "leaf", "start")
  /\ Commit(t, Return(tasks[t].stack,
                      leafValidate(Top(t).schema, Top(t).value, tasks[t].mode, Top(t).path)),
            Spend(EnvOf(t), ChildCost(Top(t))))

\* the asynchronous validator of schema.allowNull() and of schema.optional()
\* around a leaf: the synchronous result, no suspension
AsyncMarker(t) ==
  /\ tasks[t].status = "running"
  /\ Top(t).schema.schemaType \in {"allowNull", "optional"}
  /\ Top(t).pc = "start"
  /\ LET r == markerValidate(Top(t).schema, Top(t).value, tasks[t].mode, Top(t).path,
                             Top(t).depth,
                             Spend(EnvOf(t), ChildCost(Top(t))))
     IN Commit(t, Return(tasks[t].stack, r.result), r.env)

MutantChunkOfOne(schema, numValues) == 1

MutantChunkOfZero(schema, numValues) ==
  IF schema.items.estimatedValidationTimeComplexity = 0
    THEN Max(1, numValues)
    ELSE asyncTimeComplexityThreshold \div schema.items.estimatedValidationTimeComplexity

MutantChunkRoundedUp(schema, numValues) ==
  IF schema.items.estimatedValidationTimeComplexity = 0
    THEN Max(1, numValues)
    ELSE Max(1, asyncTimeComplexityThreshold \div schema.items.estimatedValidationTimeComplexity) + 1

\* Math.max(1, Math.floor(asyncTimeComplexityThreshold / items.estimatedValidationTimeComplexity));
\* an item cost of 0 gives Infinity: one chunk holds every element
chunkSizeOf(schema, numValues) ==
  IF schema.items.estimatedValidationTimeComplexity = 0
    THEN Max(1, numValues)
    ELSE Max(1, asyncTimeComplexityThreshold \div schema.items.estimatedValidationTimeComplexity)

\* asyncValidateArray up to its chunk loop: the type, the mode and the bounds
AsyncArrayStart(t) ==
  /\ Running(t, "array", "start")
  /\ LET f == Top(t)
         schema == f.schema
         value == f.value
         mode == tasks[t].mode
         needsDeepSerDes == needsDeepSerDesOf(schema.items)
         shouldStopOnFirstError == shouldStopOnFirstErrorOf(mode, needsDeepSerDes)
         errorResult == asyncBoundsError(schema, value, mode, f.path)
         env == EnvOf(t)
         env1 == IF errorResult = NoResult THEN env ELSE Emit(env, Event("error", f.depth, -1))
     IN IF ~IsArray(value)
          THEN Commit(t, Return(tasks[t].stack, TypeMismatch(value, f.path)),
                      Emit(env, Event("error", f.depth, -1)))
        ELSE IF ~needsDeepSerDes /\ mode = "none"
          THEN Commit(t, Return(tasks[t].stack, noError), env)
        ELSE IF errorResult # NoResult /\ shouldStopOnFirstError
          THEN Commit(t, Return(tasks[t].stack, errorResult), env1)
        ELSE IF schema.items = NoSchema
          THEN Commit(t, Return(tasks[t].stack, OrNoError(errorResult)), env1)
        ELSE Commit(t, SetTop(tasks[t].stack,
                              [f EXCEPT !.pc = "chunkLoop", !.errorResult = errorResult,
                                        !.chunkStartIndex = 0]), env1)

\* the test of the chunk loop and the head of processChunk: shouldYield() answers b
AsyncArrayChunk(t, b) ==
  /\ Running(t, "array", "chunkLoop")
  /\ LET f == Top(t)
         env == Emit(EnvOf(t), Event("shouldYield", f.depth, f.chunkStartIndex))
     IN IF f.chunkStartIndex < Len(f.value.elems)
          THEN IF b
                 THEN Commit(t, SetTop(tasks[t].stack, [f EXCEPT !.pc = "yield"]),
                             [Emit(env, Event("yield", f.depth, f.chunkStartIndex))
                                EXCEPT !.work = 0])
                 ELSE Commit(t, SetTop(tasks[t].stack,
                                       [f EXCEPT !.pc = "items", !.index = f.chunkStartIndex]),
                             [env EXCEPT !.alwaysYield = FALSE])
          ELSE /\ b = FALSE
               /\ Commit(t, Return(tasks[t].stack, OrNoError(f.errorResult)), EnvOf(t))

\* the host resumes the task that awaited validatorOptions.yield()
AsyncArrayResume(t) ==
  /\ Running(t, "array", "yield")
  /\ Commit(t, SetTop(tasks[t].stack, [Top(t) EXCEPT !.pc = "items", !.index = Top(t).chunkStartIndex]),
            EnvOf(t))

\* one pass of processChunk's loop up to the call of the item's validator
AsyncArrayItem(t) ==
  /\ Running(t, "array", "items")
  /\ LET f == Top(t)
         schema == f.schema
         numValues == Len(f.value.elems)
         chunkSize == chunkSizeOf(schema, numValues)
     IN IF ~(f.index < numValues /\ f.index < f.chunkStartIndex + chunkSize)
          \* processChunk returns undefined: the next chunk
          THEN Commit(t, SetTop(tasks[t].stack,
                                [f EXCEPT !.pc = "chunkLoop",
                                          !.chunkStartIndex = f.chunkStartIndex + chunkSize]), EnvOf(t))
        ELSE IF reachedMaxEntriesToValidate(schema, f.index)
          \* processChunk returns false: break
          THEN Commit(t, Return(tasks[t].stack, OrNoError(f.errorResult)), EnvOf(t))
        ELSE InvokeChild(t, f, schema.items, ItemAt(f.value, f.index),
                         appendPathIndex(f.path, f.index),
                         Emit(EnvOf(t), Event("item", f.depth, f.index)))

\* the rest of the pass: the item's result
AsyncArrayItemResult(t) ==
  /\ Running(t, "array", "got")
  /\ LET f == Top(t)
         schema == f.schema
         numValues == Len(f.value.elems)
         chunkSize == chunkSizeOf(schema, numValues)
         shouldStopOnFirstError ==
           shouldStopOnFirstErrorOf(tasks[t].mode, needsDeepSerDesOf(schema.items))
     IN IF storesError(f.errorResult, f.ret)
          THEN IF shouldStopOnFirstError
                 \* processChunk returns errorResult; the chunk loop evaluates
                 \* `chunkRes;` and goes on with the next chunk
                 THEN Commit(t, SetTop(tasks[t].stack,
                                       [f EXCEPT !.pc = "chunkLoop", !.errorResult = f.ret,
                                                 !.chunkStartIndex = f.chunkStartIndex + chunkSize]),
                             Emit(EnvOf(t), Event("error", f.depth, f.index)))
                 ELSE Commit(t, SetTop(tasks[t].stack,
                                       [f EXCEPT !.pc = "items", !.errorResult = f.ret,
                                                 !.index = f.index + 1]),
                             Emit(EnvOf(t), Event("error", f.depth, f.index)))
          ELSE Commit(t, SetTop(tasks[t].stack, [f EXCEPT !.pc = "items", !.index = f.index + 1]),
                      EnvOf(t))

\* upgraded.internalValidateAsync: the new schema's validator is called
AsyncUpgradedNew(t) ==
  /\ Running(t, "upgraded", "start")
  /\ InvokeChild(t, [Top(t) EXCEPT !.index = 1], Top(t).schema.newSchema, Top(t).value,
                 Top(t).path, Emit(EnvOf(t), Event("callNew", Top(t).depth, -1)))

\* newResult is known: return noError or call the old schema's validator
AsyncUpgradedOld(t) ==
  /\ Running(t, "upgraded", "got")
  /\ Top(t).index = 1
  /\ LET f == [Top(t) EXCEPT !.newResult = Top(t).ret, !.index = 2]
         env == Emit(EnvOf(t), Event(Returned("new", f.newResult), f.depth, -1))
     IN IF HasNoError(f.newResult)
          THEN Commit(t, Return(SetTop(tasks[t].stack, f), upgradedResult(f.newResult, NoResult)),
                      env)
          ELSE InvokeChild(t, f, f.schema.oldSchema, f.value, f.path,
                           Emit(env, Event("callOld", f.depth, -1)))

\* oldResult is known: warn once and return noError, or return oldResult
AsyncUpgradedResult(t) ==
  /\ Running(t, "upgraded", "got")
  /\ Top(t).index = 2
  /\ LET f == [Top(t) EXCEPT !.oldResult = Top(t).ret]
         env == Emit(EnvOf(t), Event(Returned("old", f.oldResult), f.depth, -1))
     IN IF HasNoError(f.oldResult)
          THEN Commit(t, Return(SetTop(tasks[t].stack, f), upgradedResult(f.newResult, f.oldResult)),
                      WarnOnce(env, f.schema.uniqueName, f.value))
          ELSE Commit(t, Return(SetTop(tasks[t].stack, f), upgradedResult(f.newResult, f.oldResult)),
                      env)

Step(t) ==
  \/ AsyncLeaf(t)
  \/ AsyncMarker(t)
  \/ AsyncArrayStart(t)
  \/ \E b \in BOOLEAN : AsyncArrayChunk(t, b)
  \/ AsyncArrayResume(t)
  \/ AsyncArrayItem(t)
  \/ AsyncArrayItemResult(t)
  \/ AsyncUpgradedNew(t)
  \/ AsyncUpgradedOld(t)
  \/ AsyncUpgradedResult(t)

\* the calls a caller can make: any schema, value and mode
Call(t, schemas, values, modes) ==
  /\ tasks[t].status = "idle"
  /\ \E schema \in schemas, value \in values, mode \in modes :
       \/ Validate(t, schema, value, mode)
       \/ ValidateAsync(t, schema, value, mode)

Next ==
  \E t \in DOMAIN tasks :
    \/ Call(t, RootSchemas, Values, Modes)
    \/ Step(t)

NextConc ==
  \E t \in DOMAIN tasks :
    \/ Call(t, ConcSchemas, ConcValues, ConcModes)
    \/ Step(t)

Spec == Init /\ [][Next]_vars

SpecConc == InitConc /\ [][NextConc]_vars

NextFair ==
  \/ Call(1, FairSchemas, FairValues, Modes)
  \/ Step(1)

\* the host resumes every awaited yield and every called validator runs on
SpecFair == Init /\ [][NextFair]_vars /\ WF_vars(Step(1))

(* ------------------------------- claims -------------------------------- *)

Done(t) == tasks[t].status = "done"

\* what the synchronous validator of the task's schema returns for its value
SyncResult(t) ==
  internalValidate(tasks[t].schema, tasks[t].value, tasks[t].mode, <<>>, 0, EnvOf(t)).result

\* the events of the validator that was called, without those of its children
OwnTrace(t) == SelectSeq(tasks[t].trace, LAMBDA ev : ev.d = 0)

OwnEvents(t, e) == SelectSeq(tasks[t].trace, LAMBDA ev : ev.d = 0 /\ ev.e = e)

IsArrayCall(t) ==
  /\ tasks[t].status # "idle"
  /\ tasks[t].schema.schemaType = "array"
  /\ IsArray(tasks[t].value)

\* the item validator (synchronous) accepts the element at index i of the task's value
ItemValid(t, i) ==
  HasNoError(internalValidate(tasks[t].schema.items, ItemAt(tasks[t].value, i), tasks[t].mode,
                              <<i>>, 1, EnvOf(t)).result)

\* C1: whenever the synchronous validator of a schema reports no error for a
\* value, a finished asynchronous validation of the same schema, value and
\* mode reports no error, whatever the threshold and whatever shouldYield said.
C1_SyncValidImpliesAsyncValid ==
  \A t \in DOMAIN tasks :
    (Done(t) /\ tasks[t].kind = "async" /\ HasNoError(SyncResult(t)))
      => HasNoError(tasks[t].result)

\* an asynchronous validation of a nested array that yielded, ran a child's
\* asynchronous validator and found the value valid
C1_Witness ==
  \E t \in DOMAIN tasks :
    /\ Done(t) /\ tasks[t].kind = "async" /\ IsArrayCall(t)
    /\ HasNoError(SyncResult(t)) /\ HasNoError(tasks[t].result)
    /\ Len(tasks[t].value.elems) >= 2
    /\ Len(OwnEvents(t, "yield")) >= 1
    /\ \E k \in 1..Len(tasks[t].trace) : tasks[t].trace[k].d = 1 /\ tasks[t].trace[k].e = "yield"

\* C2 as amended: at every moment, under every interleaving of synchronous and
\* asynchronous validations, the number of deprecation warnings emitted for a
\* uniqueName is 1 if some validation so far found a value other than undefined
\* that old accepts and new rejects, and 0 otherwise.
C2_WarnOncePerDefinedLegacyValue ==
  \A n \in UniqueNames : warns[n] = IF <<n, TRUE>> \in legacy THEN 1 ELSE 0

\* two finished validations, one synchronous and one asynchronous, of distinct
\* schemas sharing a uniqueName and of different values, both matched only by
\* old: one warning
C2_Witness ==
  \E t, u \in DOMAIN tasks :
    /\ Done(t) /\ Done(u)
    /\ tasks[t].kind = "sync" /\ tasks[u].kind = "async"
    /\ tasks[t].schema.schemaType = "upgraded" /\ tasks[u].schema.schemaType = "upgraded"
    /\ tasks[t].schema # tasks[u].schema
    /\ tasks[t].schema.uniqueName = tasks[u].schema.uniqueName
    /\ tasks[t].value = NumberValue /\ tasks[u].value = NumberValue
    /\ HasNoError(tasks[t].result) /\ HasNoError(tasks[u].result)
    /\ warns[tasks[t].schema.uniqueName] = 1

\* C2 as written: once a validation found a value that old accepts and new
\* rejects, exactly one warning was emitted for the uniqueName.
C2_WarnOncePerLegacyValue ==
  \A n \in UniqueNames :
    (\E b \in BOOLEAN : <<n, b>> \in legacy) => warns[n] = 1

\* what the new and the old schema's validators returned to a finished
\* upgraded call: as the asynchronous call received them, as the synchronous
\* validators compute them
NewResultOf(t) ==
  IF tasks[t].kind = "async" THEN tasks[t].stack[1].newResult
  ELSE internalValidate(tasks[t].schema.newSchema, tasks[t].value, tasks[t].mode, <<>>, 1, EnvOf(t)).result

OldResultOf(t) ==
  IF tasks[t].kind = "async" THEN tasks[t].stack[1].oldResult
  ELSE internalValidate(tasks[t].schema.oldSchema, tasks[t].value, tasks[t].mode, <<>>, 1, EnvOf(t)).result

IsUpgradedDone(t) == Done(t) /\ tasks[t].schema.schemaType = "upgraded"

\* C3: a finished upgraded validation (sync or async) returns no error iff
\* new's validator or old's validator returned no error, and returns exactly
\* old's error result when both returned an error; in the modes that check,
\* the asynchronous call receives from new what new's synchronous validator
\* returns.
C3_UpgradedOutcome ==
  \A t \in DOMAIN tasks :
    IsUpgradedDone(t) =>
      /\ HasNoError(tasks[t].result)
           <=> (HasNoError(NewResultOf(t)) \/ HasNoError(OldResultOf(t)))
      /\ ~HasNoError(tasks[t].result) =>
           /\ tasks[t].result = OldResultOf(t)
           /\ ~HasNoError(NewResultOf(t))
      /\ tasks[t].mode # "none" =>
           NewResultOf(t) =
             internalValidate(tasks[t].schema.newSchema, tasks[t].value, tasks[t].mode,
                              <<>>, 1, EnvOf(t)).result

\* an asynchronous upgraded validation that both schemas rejected, with
\* different errors, and that returned old's
C3_Witness ==
  \E t \in DOMAIN tasks :
    /\ IsUpgradedDone(t) /\ tasks[t].kind = "async"
    /\ ~HasNoError(NewResultOf(t)) /\ ~HasNoError(OldResultOf(t))
    /\ OldResultOf(t) # NoResult
    /\ NewResultOf(t).kind # OldResultOf(t).kind
    /\ tasks[t].result = OldResultOf(t)

HasLimit(t) ==
  /\ IsArrayCall(t)
  /\ tasks[t].schema.items # NoSchema
  /\ ~needsDeepSerDesOf(tasks[t].schema.items)
  /\ tasks[t].schema.maxEntriesToValidate # Undefined

WithinBounds(t) ==
  boundsError(tasks[t].schema, tasks[t].value, <<>>) = NoResult

HasMinLength(t) == IsArrayCall(t) /\ Done(t) /\ tasks[t].schema.minLength # Undefined

\* a length error of the validator that was called (an element's error has the element's path)
IsLengthError(result) == result.kind \in {"tooShort", "tooLong"} /\ result.path = <<>>

\* C5 as amended: in the modes 'hard' and 'soft', an array shorter than
\* minLength = m is rejected with the too-short error naming m and the length
\* found; in every mode an array of length >= m that is within maxLength is
\* not rejected on length grounds; by the sync and the async validator.
C5_MinLengthWhenChecking ==
  \A t \in DOMAIN tasks :
    HasMinLength(t) =>
      /\ (tasks[t].mode # "none" /\ Len(tasks[t].value.elems) < tasks[t].schema.minLength)
           => tasks[t].result = TooShort(tasks[t].schema.minLength, tasks[t].value, <<>>)
      /\ (Len(tasks[t].value.elems) >= tasks[t].schema.minLength
          /\ (tasks[t].schema.maxLength # Undefined
                => Len(tasks[t].value.elems) <= tasks[t].schema.maxLength))
           => ~IsLengthError(tasks[t].result)

\* a 'soft' asynchronous validation of a too-short array whose items need
\* custom SerDes: every item was validated and the too-short error returned
C5_Witness ==
  \E t \in DOMAIN tasks :
    /\ HasMinLength(t) /\ tasks[t].kind = "async" /\ tasks[t].mode = "soft"
    /\ needsDeepSerDesOf(tasks[t].schema.items)
    /\ Len(tasks[t].value.elems) = 1
    /\ tasks[t].schema.minLength = 2
    /\ Len(OwnEvents(t, "item")) = 1
    /\ tasks[t].result.kind = "tooShort"

\* C5 as written: every array shorter than minLength = m is rejected with the
\* too-short error.
C5_MinLengthAlways ==
  \A t \in DOMAIN tasks :
    (HasMinLength(t) /\ Len(tasks[t].value.elems) < tasks[t].schema.minLength)
      => tasks[t].result.kind = "tooShort"

Called(t) == tasks[t].status # "idle"

\* C6: in mode 'hard', after an array validator (sync or async) stored its
\* first error it invokes no item validator and consults neither shouldYield
\* nor yield.
C6_HardStopsAtFirstError ==
  \A t \in DOMAIN tasks :
    (Called(t) /\ tasks[t].mode = "hard" /\ tasks[t].schema.schemaType = "array") =>
      \A j, k \in 1..Len(OwnTrace(t)) :
        (j < k /\ OwnTrace(t)[j].e = "error")
          => OwnTrace(t)[k].e \notin {"item", "shouldYield", "yield"}

LowerIndicesValid(t, j) == \A i \in 0..(j - 1) : ItemValid(t, i)

\* C7: a finished array validation returns the no-error value or one error;
\* the validator stores an error at most once, and what it returns is that
\* first error: the type mismatch for a non-array, else too-short before
\* too-long before an element's error, and an element's error only for the
\* lowest failing index among the elements validated.
C7_SingleErrorInCheckOrder ==
  \A t \in DOMAIN tasks :
    (Done(t) /\ tasks[t].schema.schemaType = "array") =>
      /\ tasks[t].result.kind \in {"noError", "typeMismatch", "tooShort", "tooLong", "leaf"}
      /\ Len(OwnEvents(t, "error")) <= 1
      /\ HasNoError(tasks[t].result) <=> OwnEvents(t, "error") = <<>>
      /\ ~IsArray(tasks[t].value) => tasks[t].result = TypeMismatch(tasks[t].value, <<>>)
      /\ (IsArray(tasks[t].value) /\ ~HasNoError(tasks[t].result)) =>
           LET first == OwnEvents(t, "error")[1]
               length == Len(tasks[t].value.elems)
               schema == tasks[t].schema
           IN /\ first.i = -1 <=> IsLengthError(tasks[t].result)
              /\ (tasks[t].result.kind = "tooShort" /\ first.i = -1)
                   => tasks[t].result = TooShort(minLengthOf(schema), tasks[t].value, <<>>)
                      /\ length < minLengthOf(schema)
              /\ (tasks[t].result.kind = "tooLong" /\ first.i = -1)
                   => tasks[t].result = TooLong(schema.maxLength, tasks[t].value, <<>>)
                      /\ length > schema.maxLength
                      /\ length >= minLengthOf(schema)
              /\ first.i >= 0 =>
                   /\ tasks[t].result.path # <<>>
                   /\ tasks[t].result.path[1] = first.i
                   /\ \E k \in 1..Len(OwnTrace(t)) :
                        OwnTrace(t)[k] = Event("item", 0, first.i)
                   /\ tasks[t].mode # "none" =>
                        /\ boundsError(schema, tasks[t].value, <<>>) = NoResult
                        /\ LowerIndicesValid(t, first.i)
                        /\ ~ItemValid(t, first.i)
              /\ (tasks[t].mode # "none" /\ boundsError(schema, tasks[t].value, <<>>) # NoResult)
                   => first.i = -1

\* a 'soft' validation of an array whose items need custom SerDes and whose
\* elements at index 1 and 2 both fail: the error of index 1 is returned
C7_Witness ==
  \E t \in DOMAIN tasks :
    /\ Done(t) /\ IsArrayCall(t) /\ tasks[t].mode = "soft" /\ tasks[t].kind = "async"
    /\ needsDeepSerDesOf(tasks[t].schema.items)
    /\ Len(tasks[t].value.elems) = 3
    /\ ItemValid(t, 0) /\ ~ItemValid(t, 1) /\ ~ItemValid(t, 2)
    /\ tasks[t].result.path = <<1>>
    /\ Len(OwnEvents(t, "item")) = 3

IsSoftDeepCall(t) ==
  /\ IsArrayCall(t)
  /\ tasks[t].mode = "soft"
  /\ tasks[t].schema.items # NoSchema
  /\ needsDeepSerDesOf(tasks[t].schema.items)

ItemResult(t, i) ==
  internalValidate(tasks[t].schema.items, ItemAt(tasks[t].value, i), tasks[t].mode,
                   <<i>>, 1, EnvOf(t)).result

\* the error of the first element the item validator rejects, if any
FirstItemError(t) ==
  LET bad == {i \in 0..(Len(tasks[t].value.elems) - 1) : ~ItemValid(t, i)}
  IN IF bad = {} THEN NoResult
     ELSE ItemResult(t, CHOOSE i \in bad : \A j \in bad : i <= j)

\* C8: in mode 'soft' with items that need custom SerDes, the array validator
\* (sync and async) invokes the item validator on index 0, 1, 2, ... in this
\* order, once each, and when it has finished it has done so for every element
\* and returns the first error detected: the bound violation if there is one,
\* else the error of the first failing element, else no error.
C8_SoftRunsToCompletion ==
  \A t \in DOMAIN tasks :
    IsSoftDeepCall(t) =>
      /\ \A k \in 1..Len(OwnEvents(t, "item")) : OwnEvents(t, "item")[k].i = k - 1
      /\ Done(t) =>
           /\ Len(OwnEvents(t, "item")) = Len(tasks[t].value.elems)
           /\ tasks[t].result =
                IF boundsError(tasks[t].schema, tasks[t].value, <<>>) # NoResult
                  THEN boundsError(tasks[t].schema, tasks[t].value, <<>>)
                  ELSE OrNoError(FirstItemError(t))

\* a 'soft' asynchronous validation of a too-long array whose first element
\* fails: all three elements validated, the too-long error returned
C8_Witness ==
  \E t \in DOMAIN tasks :
    /\ IsSoftDeepCall(t) /\ Done(t) /\ tasks[t].kind = "async"
    /\ Len(tasks[t].value.elems) = 3
    /\ ~ItemValid(t, 0)
    /\ tasks[t].result.kind = "tooLong"
    /\ Len(OwnEvents(t, "item")) = 3

\* C9: in mode 'none' an array validator (sync or async) given an array reports
\* no too-short or too-long error; without items needing custom SerDes it
\* returns no error and invokes no item validator; with them it invokes the
\* item validator on every element.
C9_NoneSkipsChecks ==
  \A t \in DOMAIN tasks :
    (IsArrayCall(t) /\ Done(t) /\ tasks[t].mode = "none") =>
      /\ ~IsLengthError(tasks[t].result)
      /\ ~needsDeepSerDesOf(tasks[t].schema.items) =>
           HasNoError(tasks[t].result) /\ OwnEvents(t, "item") = <<>>
      /\ needsDeepSerDesOf(tasks[t].schema.items) =>
           Len(OwnEvents(t, "item")) = Len(tasks[t].value.elems)

\* the chunk size the called array validator must use
ExpectedChunkSize(t) ==
  IF tasks[t].schema.items.estimatedValidationTimeComplexity = 0
    THEN Max(1, Len(tasks[t].value.elems))
    ELSE Max(1, asyncTimeComplexityThreshold
                  \div tasks[t].schema.items.estimatedValidationTimeComplexity)

\* C10: a yield is invoked only right after a shouldYield of the same chunk,
\* before any element of that chunk is validated; the async array validator
\* consults shouldYield once per chunk, at the chunk starts 0, c, 2c, ... below
\* the length n, so at most ceil(n/c) times; synchronous validations and the
\* upgraded combinator itself consult neither.
C10_SuspensionPoints ==
  \A t \in DOMAIN tasks :
    Called(t) =>
      LET trace == tasks[t].trace
          own == OwnTrace(t)
          asked == OwnEvents(t, "shouldYield")
      IN /\ \A k \in 1..Len(trace) :
              trace[k].e = "yield" =>
                k > 1 /\ trace[k - 1] = Event("shouldYield", trace[k].d, trace[k].i)
         /\ \A j, k \in 1..Len(own) :
              (j < k /\ own[j].e = "item" /\ own[k].e \in {"shouldYield", "yield"})
                => own[j].i < own[k].i
         /\ tasks[t].kind = "sync" =>
              \A k \in 1..Len(trace) : trace[k].e \notin {"shouldYield", "yield"}
         /\ tasks[t].schema.schemaType = "upgraded" =>
              \A k \in 1..Len(own) : own[k].e \notin {"shouldYield", "yield"}
         /\ (tasks[t].kind = "async" /\ asked # <<>>) =>
              /\ \A k \in 1..Len(asked) :
                   /\ asked[k].i = (k - 1) * ExpectedChunkSize(t)
                   /\ asked[k].i < Len(tasks[t].value.elems)
              /\ Len(OwnEvents(t, "yield")) <= Len(asked)
              /\ (Len(asked) - 1) * ExpectedChunkSize(t) < Len(tasks[t].value.elems)

\* an asynchronous validation of three elements in chunks of two: shouldYield
\* consulted twice, the second time answering true
C10_Witness ==
  \E t \in DOMAIN tasks :
    /\ Done(t) /\ tasks[t].kind = "async" /\ IsArrayCall(t)
    /\ tasks[t].schema.items # NoSchema
    /\ ExpectedChunkSize(t) = 2
    /\ Len(tasks[t].value.elems) = 3
    /\ Len(OwnEvents(t, "shouldYield")) = 2
    /\ OwnEvents(t, "yield") = <<Event("yield", 0, 2)>>
    /\ Len(OwnEvents(t, "item")) = 3

\* the asynchronous array validator now running in task t validates items
\* whose estimated cost does not exceed the threshold
InArrayOfCheapItems(t) ==
  /\ tasks[t].kind = "async"
  /\ Top(t).schema.schemaType = "array"
  /\ Top(t).schema.items # NoSchema
  /\ ~usesAsyncValidator(Top(t).schema.items)

EnvWith(names) ==
  [alreadyLogUpgradedWarnings |-> names, warns |-> [n \in UniqueNames |-> 0],
   legacy |-> {}, trace |-> <<>>, work |-> 0, alwaysYield |-> TRUE]

SameCall(t, u) ==
  /\ tasks[t].kind = tasks[u].kind
  /\ tasks[t].mode = tasks[u].mode
  /\ tasks[t].schema = tasks[u].schema
  /\ tasks[t].value = tasks[u].value

\* C12: finished validations of the same value against the same schema
\* return the same result, in whatever order they and other validations ran;
\* the result is what the validator returns whatever the deprecation-warning
\* set holds; a call's frame still holds the schema and the value it was
\* called with.
C12_Idempotent ==
  /\ \A t, u \in DOMAIN tasks :
       (Done(t) /\ Done(u) /\ SameCall(t, u)) => tasks[t].result = tasks[u].result
  /\ \A t \in DOMAIN tasks :
       Done(t) =>
         \A names \in SUBSET UniqueNames :
           tasks[t].result =
             internalValidate(tasks[t].schema, tasks[t].value, tasks[t].mode, <<>>, 0,
                              EnvWith(names)).result
  /\ \A t \in DOMAIN tasks :
       tasks[t].kind = "async" =>
         tasks[t].stack[1].schema = tasks[t].schema /\ tasks[t].stack[1].value = tasks[t].value

\* the same legacy value validated twice against the same upgraded schema by
\* the synchronous validator: accepted both times, the warning emitted once
C12_Witness ==
  \E t, u \in DOMAIN tasks :
    /\ t # u /\ Done(t) /\ Done(u) /\ SameCall(t, u)
    /\ tasks[t].kind = "sync"
    /\ tasks[t].schema.schemaType = "upgraded"
    /\ tasks[t].value = NumberValue
    /\ HasNoError(tasks[t].result) /\ HasNoError(tasks[u].result)
    /\ warns[tasks[t].schema.uniqueName] = 1

RECURSIVE SchemasIn(_)

\* a schema and the schemas it was built from
SchemasIn(schema) ==
  {schema} \cup
    CASE schema.schemaType = "array" ->
           (IF schema.items = NoSchema THEN {} ELSE SchemasIn(schema.items))
      [] schema.schemaType = "upgraded" ->
           SchemasIn(schema.oldSchema) \cup SchemasIn(schema.newSchema)
      [] schema.schemaType \in {"allowNull", "optional"} -> SchemasIn(schema.schema)
      [] OTHER -> {}

\* the array schemas the called schema holds, itself included
ArraysCalled(t) ==
  IF Called(t) THEN {schema \in SchemasIn(tasks[t].schema) : schema.schemaType = "array"} ELSE {}

\* the cost of an array's items: 1 when items is absent
ItemCostOf(schema) ==
  IF schema.items = NoSchema THEN 1 ELSE schema.items.estimatedValidationTimeComplexity

\* C13: an array schema's estimatedValidationTimeComplexity is its item cost
\* (1 when items is absent) times a representative length: for an array that
\* skips serialization work (items without custom SerDes, or no items)
\* maxEntriesToValidate, for any other array maxLength, and 100 when that
\* option is not given.
C13_ArrayCostModel ==
  \A t \in DOMAIN tasks :
    \A schema \in ArraysCalled(t) :
      LET skipsSerDes == schema.items = NoSchema \/ ~schema.items.usesCustomSerDes
          bound == IF skipsSerDes THEN schema.maxEntriesToValidate ELSE schema.maxLength
      IN schema.estimatedValidationTimeComplexity =
           ItemCostOf(schema) * (IF bound = Undefined THEN 100 ELSE bound)

\* a finished asynchronous validation of an array of arrays whose item schema
\* skips serialization work and has maxLength = 2 but no maxEntriesToValidate:
\* the item schema costs 1 * 100, the array 100 * 100
C13_Witness ==
  \E t \in DOMAIN tasks :
    /\ Done(t) /\ tasks[t].kind = "async"
    /\ tasks[t].schema.schemaType = "array"
    /\ tasks[t].schema.items # NoSchema
    /\ tasks[t].schema.items.schemaType = "array"
    /\ tasks[t].schema.items.maxLength = 2
    /\ tasks[t].schema.items.maxEntriesToValidate = Undefined
    /\ tasks[t].schema.items.estimatedValidationTimeComplexity = 100
    /\ tasks[t].schema.estimatedValidationTimeComplexity = 10000
    /\ Len(OwnEvents(t, "item")) = 2

\* C19: every array and upgraded schema built from children of positive cost
\* has a strictly positive estimatedValidationTimeComplexity, whatever
\* minLength, maxLength and maxEntriesToValidate are (0 included), and an
\* upgraded schema's cost is the sum of the costs of old and new.
C19_CostPositive ==
  \A t \in DOMAIN tasks :
    Called(t) =>
      \A schema \in SchemasIn(tasks[t].schema) :
        /\ (schema.schemaType = "array" /\ ItemCostOf(schema) > 0)
             => schema.estimatedValidationTimeComplexity > 0
        /\ (schema.schemaType = "upgraded"
            /\ schema.oldSchema.estimatedValidationTimeComplexity > 0
            /\ schema.newSchema.estimatedValidationTimeComplexity > 0)
             => /\ schema.estimatedValidationTimeComplexity > 0
                /\ schema.estimatedValidationTimeComplexity =
                     schema.oldSchema.estimatedValidationTimeComplexity
                       + schema.newSchema.estimatedValidationTimeComplexity

RECURSIVE BaseOf(_)
RECURSIVE MarkersOf(_)

\* S, for a schema made from S by allowNull() and optional()
BaseOf(schema) ==
  IF schema.schemaType \in {"allowNull", "optional"} THEN BaseOf(schema.schema) ELSE schema

\* which of allowNull() and optional() were applied to S
MarkersOf(schema) ==
  IF schema.schemaType \in {"allowNull", "optional"}
    THEN {schema.schemaType} \cup MarkersOf(schema.schema)
    ELSE {}

\* S accepts the value in the task's mode
BaseAccepts(t, value) ==
  HasNoError(internalValidate(BaseOf(tasks[t].schema), value, tasks[t].mode, <<>>, 0,
                              EnvOf(t)).result)

IsMarkerCall(t) ==
  /\ Done(t)
  /\ MarkersOf(tasks[t].schema) # {}
  /\ ~BaseAccepts(t, NullValue)
  /\ ~BaseAccepts(t, UndefinedValue)

\* C14: for a schema S that rejects null and undefined, a finished validation
\* (sync or async) against S.allowNull(), S.optional() or
\* S.allowNull().optional() accepts null iff allowNull() was applied, accepts
\* undefined iff optional() was applied, and accepts any other value iff S
\* accepts it.
C14_AllowNullOptionalCompose ==
  \A t \in DOMAIN tasks :
    IsMarkerCall(t) =>
      HasNoError(tasks[t].result) <=>
        CASE tasks[t].value = NullValue -> "allowNull" \in MarkersOf(tasks[t].schema)
          [] tasks[t].value = UndefinedValue -> "optional" \in MarkersOf(tasks[t].schema)
          [] OTHER -> BaseAccepts(t, tasks[t].value)

\* string().allowNull().optional() accepted null in an asynchronous validation
C14_Witness ==
  \E t \in DOMAIN tasks :
    /\ IsMarkerCall(t) /\ tasks[t].kind = "async"
    /\ MarkersOf(tasks[t].schema) = {"allowNull", "optional"}
    /\ tasks[t].value = NullValue
    /\ HasNoError(tasks[t].result)

\* the calls an upgraded validator makes and what they return, as trace entries
NewThenOld ==
  { <<"callNew", "newAccepted">>,
    <<"callNew", "newRejected", "callOld", "oldAccepted">>,
    <<"callNew", "newRejected", "callOld", "oldRejected">> }

\* what the called upgraded validator did so far: its calls of new and old
OwnCalls(t) ==
  LET own == SelectSeq(tasks[t].trace,
                       LAMBDA ev : ev.d = 0 /\ ev.e \in {"callNew", "newAccepted", "newRejected",
                                                          "callOld", "oldAccepted", "oldRejected"})
  IN [k \in 1..Len(own) |-> own[k].e]

IsPrefix(s, r) == Len(s) <= Len(r) /\ s = SubSeq(r, 1, Len(s))

\* the uniqueNames of the upgraded schemas a schema holds, itself included
NamesIn(schema) ==
  {inner.uniqueName : inner \in {x \in SchemasIn(schema) : x.schemaType = "upgraded"}}

IsUpgradedCall(t) == Called(t) /\ tasks[t].schema.schemaType = "upgraded"

NewAccepted(t) == \E k \in 1..Len(OwnCalls(t)) : OwnCalls(t)[k] = "newAccepted"

\* C15 as amended: the sync and the async upgraded validator call new first
\* and call old only after new returned an error, so never before and never
\* while new runs; when new accepted the value the validator never calls old
\* and returns no error, and the only names a validation from a fresh process
\* can have warned about and added to the set are those of upgraded schemas
\* held by new.
C15_NewThenOld ==
  \A t \in DOMAIN tasks :
    IsUpgradedCall(t) =>
      /\ \E run \in NewThenOld : IsPrefix(OwnCalls(t), run)
      /\ Done(t) =>
           /\ OwnCalls(t) \in NewThenOld
           /\ NewAccepted(t) <=> HasNoError(NewResultOf(t))
           /\ NewAccepted(t) => HasNoError(tasks[t].result)
      /\ NewAccepted(t) =>
           /\ alreadyLogUpgradedWarnings \subseteq NamesIn(tasks[t].schema.newSchema)
           /\ \A n \in UniqueNames \ NamesIn(tasks[t].schema.newSchema) : warns[n] = 0

\* an asynchronous upgraded validation whose new validator ran asynchronously,
\* yielded and returned an error before old was called; old accepted and the
\* warning was emitted
C15_Witness ==
  \E t \in DOMAIN tasks :
    /\ IsUpgradedCall(t) /\ Done(t) /\ tasks[t].kind = "async"
    /\ OwnCalls(t) = <<"callNew", "newRejected", "callOld", "oldAccepted">>
    /\ \E j, k \in 1..Len(tasks[t].trace) :
         /\ j < k
         /\ tasks[t].trace[j] = Event("callNew", 0, -1)
         /\ tasks[t].trace[k].e = "yield" /\ tasks[t].trace[k].d = 1
    /\ warns[tasks[t].schema.uniqueName] = 1

\* C15 as written: new runs to completion first and old is called only after
\* new returned an error; a value accepted by new never invokes old, never
\* emits a warning and never changes the deprecation-warning set.
C15_NewAcceptedNeverWarns ==
  \A t \in DOMAIN tasks :
    IsUpgradedCall(t) =>
      /\ \E run \in NewThenOld : IsPrefix(OwnCalls(t), run)
      /\ NewAccepted(t) =>
           /\ alreadyLogUpgradedWarnings = {}
           /\ \A n \in UniqueNames : warns[n] = 0

\* the child schema whose validator the called validator invokes at a trace entry
ChildAt(t, ev) ==
  CASE ev.e = "item" -> tasks[t].schema.items
    [] ev.e = "callNew" -> tasks[t].schema.newSchema
    [] ev.e = "callOld" -> tasks[t].schema.oldSchema

\* C16: inside an asynchronous validation, the array validator for each
\* element, and the upgraded validator for new and for old, invokes the
\* child's asynchronous validator iff the child's
\* estimatedValidationTimeComplexity is strictly greater than the threshold,
\* and the child's synchronous validator otherwise (cost equal to the
\* threshold included); only an asynchronous invocation starts an activation
\* of the child's asynchronous validator; synchronous validations never select.
C16_ChildValidatorSelection ==
  \A t \in DOMAIN tasks :
    LET own == OwnTrace(t)
        trace == tasks[t].trace
    IN /\ tasks[t].kind = "sync" =>
            \A k \in 1..Len(trace) : trace[k].e \notin {"sync", "async"}
       /\ tasks[t].kind = "async" =>
            /\ \A k \in 1..Len(own) :
                 /\ own[k].e \in {"item", "callNew", "callOld"} =>
                      /\ k < Len(own)
                      /\ own[k + 1].e =
                           IF ChildAt(t, own[k]).estimatedValidationTimeComplexity
                                > asyncTimeComplexityThreshold
                             THEN "async" ELSE "sync"
                 /\ own[k].e \in {"sync", "async"} =>
                      k > 1 /\ own[k - 1].e \in {"item", "callNew", "callOld"}
            /\ Len(tasks[t].stack) >= 2 =>
                 /\ own # <<>> /\ own[Len(own)].e = "async"
                 /\ tasks[t].stack[2].schema = ChildAt(t, own[Len(own) - 1])
            /\ (own # <<>> /\ own[Len(own)].e = "sync") => Len(tasks[t].stack) = 1

\* an asynchronous array validation whose item cost equals the threshold ran
\* the synchronous validator on each of its three elements
C16_Witness ==
  \E t \in DOMAIN tasks :
    /\ Done(t) /\ tasks[t].kind = "async" /\ IsArrayCall(t)
    /\ tasks[t].schema.items # NoSchema
    /\ tasks[t].schema.items.estimatedValidationTimeComplexity = asyncTimeComplexityThreshold
    /\ Len(OwnEvents(t, "item")) = 3
    /\ Len(OwnEvents(t, "sync")) = 3
    /\ OwnEvents(t, "async") = <<>>

\* the step validated no value other than undefined that old accepted and
\* new rejected which had not been met before
NoNewLegacyValue ==
  \A n \in UniqueNames : <<n, TRUE>> \in legacy' => <<n, TRUE>> \in legacy

\* C17: at every moment a uniqueName is in the process-wide set iff some
\* validation so far of a value other than undefined was rejected by new and
\* accepted by old on an upgraded schema with that name; the set only grows;
\* a step in which only undefined was accepted by old alone emits no warning
\* and adds no name, and the first later value other than undefined that old
\* alone accepts adds the name and emits the warning.
C17_WarningSetInvariant ==
  /\ [](\A n \in UniqueNames :
          n \in alreadyLogUpgradedWarnings <=> <<n, TRUE>> \in legacy)
  /\ [][alreadyLogUpgradedWarnings \subseteq alreadyLogUpgradedWarnings']_vars
  /\ [][NoNewLegacyValue =>
          alreadyLogUpgradedWarnings' = alreadyLogUpgradedWarnings /\ warns' = warns]_vars
  /\ [][\A n \in UniqueNames :
          (<<n, TRUE>> \in legacy' /\ <<n, TRUE>> \notin legacy) =>
            /\ n \in alreadyLogUpgradedWarnings' /\ n \notin alreadyLogUpgradedWarnings
            /\ warns'[n] = warns[n] + 1]_vars

\* undefined and a number were validated against upgraded schemas of one
\* uniqueName, each accepted by old alone: the name is in the set and one
\* warning was emitted
C17_Witness ==
  \E t, u \in DOMAIN tasks :
    /\ IsUpgradedDone(t) /\ IsUpgradedDone(u)
    /\ tasks[t].schema.uniqueName = tasks[u].schema.uniqueName
    /\ tasks[t].value = UndefinedValue /\ tasks[u].value = NumberValue
    /\ HasNoError(tasks[t].result) /\ HasNoError(tasks[u].result)
    /\ <<tasks[t].schema.uniqueName, FALSE>> \in legacy
    /\ <<tasks[t].schema.uniqueName, TRUE>> \in legacy
    /\ tasks[t].schema.uniqueName \in alreadyLogUpgradedWarnings
    /\ warns[tasks[t].schema.uniqueName] = 1

\* C18: under a host that resumes every yield, every asynchronous validation
\* that was started eventually returns, and what it returns is no error or one
\* error; the called array validator starts its chunks at strictly increasing
\* indices, at most ceil(n / chunkSize) of them for an array of n elements.
C18_AsyncTerminates ==
  /\ (tasks[1].status = "running") ~> (tasks[1].status = "done")
  /\ [](Done(1) => tasks[1].result # NoResult)
  /\ [](LET asked == OwnEvents(1, "shouldYield")
        IN (tasks[1].kind = "async" /\ asked # <<>>) =>
             /\ \A j, k \in 1..Len(asked) : j < k => asked[j].i < asked[k].i
             /\ Len(asked) <= (Len(tasks[1].value.elems) + ExpectedChunkSize(1) - 1)
                                 \div ExpectedChunkSize(1))

\* an asynchronous validation of three elements in chunks of one returned
\* after three chunks, each resumed after its yield
C18_Witness ==
  /\ Done(1) /\ tasks[1].kind = "async" /\ IsArrayCall(1)
  /\ tasks[1].schema.items # NoSchema
  /\ ExpectedChunkSize(1) = 1
  /\ Len(tasks[1].value.elems) = 3
  /\ Len(OwnEvents(1, "shouldYield")) = 3
  /\ Len(OwnEvents(1, "yield")) = 3
  /\ tasks[1].result # NoResult

\* C20: for every array schema, value and mode, a finished asynchronous
\* validation returns what the synchronous validator returns: both no error,
\* or both the same kind of error at the same path (type mismatch, too short,
\* too long, or the error of the element at the same index).
C20_SyncAsyncAgree ==
  \A t \in DOMAIN tasks :
    (Done(t) /\ tasks[t].kind = "async" /\ tasks[t].schema.schemaType = "array") =>
      /\ tasks[t].result.kind = SyncResult(t).kind
      /\ tasks[t].result.path = SyncResult(t).path

====
